---------------------------- MODULE Spec2Model ----------------------------
(***************************************************************************)
(* A model of the VideoUtils tools: the compression planner                *)
(* (calculateCompression), the media probes (getVideoDuration,             *)
(* getMediaDuration, getVideoInfo) and the segmentation loop (splitVideo), *)
(* all driving one shared FFmpeg engine.                                   *)
(*                                                                         *)
(* Units.  Times are integers counting centiseconds (1/100 s): every time  *)
(* the code reads from the engine goes through parseTimeToSeconds, whose   *)
(* result is a whole number of hundredths.  Sizes are bytes, bitrates are  *)
(* bits per second.  Quotients the code computes in floating point are     *)
(* kept exact here, as numerator/denominator pairs.                        *)
(***************************************************************************)
EXTENDS Integers, Sequences, FiniteSets

VARIABLES
    planIn,       \* the arguments of the calculateCompression call
    planOut,      \* what the call produced: a plan, or the error thrown
    plans,        \* the calculateCompression calls made, in order
    pc,           \* where the running tool function is: the await it is at
    op,           \* the tool function that is running or ran last
    calls,        \* tool calls started so far
    listeners,    \* the handlers subscribed to the engine's 'log' event
    fs,           \* the artifacts in the engine's workspace
    seen,         \* the kinds of line a probe's invocation has emitted
    durationStr,  \* getVideoDuration / getMediaDuration: the handler's match
    info,         \* getVideoInfo: duration, width, height, audioBitrate
    result,       \* what the last tool call returned or threw
    args,         \* splitVideo: its arguments
    currentTime,  \* splitVideo: numerator of currentTime over TimeDen(args)
    chunkIndex,   \* splitVideo
    lastTime,     \* splitVideo: the iteration's lastTime, centiseconds
    chunks,       \* splitVideo: the list of chunks pushed so far
    progress,     \* the last event a tool call handed to its onProgress
    cargs,        \* compressVideo / convertMedia: its arguments
    passes,       \* compressVideo: the engine invocations it has issued
    blob,         \* size of the buffer the call read, 0 for none
    deleteCalls,  \* the paths the running tool call has called deleteFile on
    page,         \* the page whose batch handler runs
    files,        \* the handler's files
    fileIndex,    \* the handler's loop index, from 1
    newResults,   \* the handler's newResults
    results,      \* the page's results state
    processing,   \* the page's processing state
    mounted,      \* whether a file is mounted at MOUNT_DIR
    stage,        \* where the handler is
    tasks,        \* Video Compressor: the handler calls made, each with its pc
    file,         \* Video Compressor: the file state
    targetMB,     \* Video Compressor: the targetMB state
    videoInfo,    \* Video Compressor: the videoInfo state
    plan,         \* Video Compressor: the plan state
    probing,      \* Video Compressor: the probing state
    ffmpeg,       \* ffmpeg.ts: the module's engine instance, 0 for null
    engines,      \* the instances constructed: engines[e] is e's loaded flag
    loads,        \* the loadFFmpeg calls made, each with its position
    sinks         \* the onProgress of each compressVideo / convertMedia call

planVars == <<planIn, planOut, plans>>

engineVars == <<listeners, fs, seen>>

callVars == <<pc, op, calls, result>>

probeVars == <<durationStr, info>>

splitVars == <<args, currentTime, chunkIndex, lastTime, chunks, progress>>

compressVars == <<cargs, passes, blob>>

uiVars == <<tasks, file, targetMB, videoInfo, plan, probing>>

loadVars == <<ffmpeg, engines, loads>>

pageVars ==
    <<page, files, fileIndex, newResults, results, processing, mounted, stage,
      uiVars, loadVars>>

vars == <<planIn, planOut, plans, pc, op, calls, listeners, fs, seen,
          durationStr, info, result, args, currentTime, chunkIndex, lastTime,
          chunks, progress, cargs, passes, blob, deleteCalls, page, files,
          fileIndex, newResults, results, processing, mounted, stage, tasks,
          file, targetMB, videoInfo, plan, probing, ffmpeg, engines, loads,
          sinks>>

(***************************************************************************)
(* Exact arithmetic helpers                                                *)
(***************************************************************************)

\* a/c >= d/b for a, d >= 0 and c, b > 0, by comparing continued fractions:
\* no product is formed, so the operands may be as large as the integers go.
RECURSIVE FracGeq(_, _, _, _)
FracGeq(a, c, d, b) ==
    LET q1 == a \div c
        q2 == d \div b
        r1 == a % c
        r2 == d % b
    IN  IF q1 # q2 THEN q1 > q2
        ELSE IF r2 = 0 THEN TRUE
        ELSE IF r1 = 0 THEN FALSE
        ELSE FracGeq(b, r2, c, r1)

MathRoundFloor(n, d) == n \div d

\* Math.round(n / d) for n >= 0, d > 0: the nearest integer, halves upward.
MathRound(n, d) == (2 * n + d) \div (2 * d)

MathRound100Floor(n, d) == 100 * (n \div d) + (100 * (n % d)) \div d

\* Math.round(100 * n / d) for n >= 0, d > 0, without forming 100 * n.
MathRound100(n, d) == 100 * (n \div d) + MathRound(100 * (n % d), d)

(***************************************************************************)
(* calculateCompression                                                    *)
(***************************************************************************)

STANDARD_RESOLUTIONS == <<1080, 720, 480, 360, 240, 144>>

\* MIN_BPP = 0.04 = MIN_BPP_NUM / MIN_BPP_DEN
MIN_BPP_NUM == 4
MIN_BPP_DEN == 100

baseAudioBitrate == 96000

minHeight == 144

\* baseAudioBitrate * duration in bits, the duration given in centiseconds.
AudioBits(duration) == (baseAudioBitrate \div 100) * duration

availableVideoBits(duration, targetBytes) ==
    targetBytes * 8 - AudioBits(duration)

TargetTooSmallStrict(avail) == avail < 0

\* if (availableVideoBits <= 0) throw
TargetTooSmall(avail) == avail <= 0

\* bestVideoBitrate / (w * h) >= MIN_BPP, with bestVideoBitrate =
\* availableVideoBits / duration: avail * 100 / duration * MIN_BPP_DEN >=
\* MIN_BPP_NUM * w * h.  A pixel count of 0 gives Infinity in the code,
\* which passes the test.
BppOk(avail, duration, w, h) ==
    FracGeq(avail, duration, w * h, (100 * MIN_BPP_DEN) \div MIN_BPP_NUM)

EvenWidthNearest(h, width, height) == MathRound(h * width, height)

\* Math.round(h * aspect / 2) * 2 with aspect = width / height
EvenWidth(h, width, height) == MathRound(h * width, 2 * height) * 2

RECURSIVE LastFitFrom(_, _, _, _, _)
LastFitFrom(i, avail, duration, width, height) ==
    IF i > Len(STANDARD_RESOLUTIONS) THEN 0
    ELSE LET h    == STANDARD_RESOLUTIONS[i]
             rest == LastFitFrom(i + 1, avail, duration, width, height)
         IN  IF rest # 0 THEN rest
             ELSE IF h >= height THEN 0
             ELSE IF BppOk(avail, duration, EvenWidth(h, width, height), h)
                  THEN i ELSE 0

\* The for loop over STANDARD_RESOLUTIONS from index i: the index of the rung
\* it breaks at, or 0 when it runs to the end with found = false.
RECURSIVE FirstFitFrom(_, _, _, _, _)
FirstFitFrom(i, avail, duration, width, height) ==
    IF i > Len(STANDARD_RESOLUTIONS) THEN 0
    ELSE LET h == STANDARD_RESOLUTIONS[i]
         IN  IF h >= height
             THEN FirstFitFrom(i + 1, avail, duration, width, height)
             ELSE IF BppOk(avail, duration, EvenWidth(h, width, height), h)
                  THEN i
                  ELSE FirstFitFrom(i + 1, avail, duration, width, height)

\* bestWidth and bestHeight after the resolution search.
BestResolution(avail, duration, width, height) ==
    IF BppOk(avail, duration, width, height)
    THEN [w |-> width, h |-> height]
    ELSE LET i == FirstFitFrom(1, avail, duration, width, height)
         IN  IF i # 0
             THEN [w |-> EvenWidth(STANDARD_RESOLUTIONS[i], width, height),
                   h |-> STANDARD_RESOLUTIONS[i]]
             ELSE [w |-> EvenWidth(144, width, height), h |-> 144]

MinQualityOfBest(avail, duration, width, height) ==
    LET best == BestResolution(avail, duration, width, height)
    IN  [minWidth        |-> best.w,
         minHeight       |-> best.h,
         minVideoBitrate |-> MathRound100(avail, duration)]

\* "Calculate minimum quality (144p floor)"
MinQuality(avail, duration, width, height) ==
    [minWidth        |-> EvenWidth(minHeight, width, height),
     minHeight       |-> minHeight,
     minVideoBitrate |-> MathRound100(avail, duration)]

VideoBitrateFloor(avail, duration) == MathRound100Floor(avail, duration)

\* videoBitrate: Math.round(bestVideoBitrate)
VideoBitrate(avail, duration) == MathRound100(avail, duration)

\* planOut before the call
NoPlan == [ok |-> FALSE, error |-> "not called"]

\* "Audio budget: copy if possible": the audio bitrate of the last probe.
calculateCompressionCopyAudio(fileSize, duration, width, height, targetBytes) ==
    LET avail == availableVideoBits(duration, targetBytes)
    IN  IF TargetTooSmall(avail)
        THEN [ok |-> FALSE,
              error |-> "Target size is too small even for audio alone."]
        ELSE LET best == BestResolution(avail, duration, width, height)
                 min  == MinQuality(avail, duration, width, height)
             IN  [ok              |-> TRUE,
                  videoBitrate    |-> VideoBitrate(avail, duration),
                  audioBitrate    |-> info.audioBitrate,
                  newWidth        |-> best.w,
                  newHeight       |-> best.h,
                  minWidth        |-> min.minWidth,
                  minHeight       |-> min.minHeight,
                  minVideoBitrate |-> min.minVideoBitrate]

calculateCompression(fileSize, duration, width, height, targetBytes) ==
    LET avail == availableVideoBits(duration, targetBytes)
    IN  IF TargetTooSmall(avail)
        THEN [ok |-> FALSE,
              error |-> "Target size is too small even for audio alone."]
        ELSE LET best == BestResolution(avail, duration, width, height)
                 min  == MinQuality(avail, duration, width, height)
             IN  [ok              |-> TRUE,
                  videoBitrate    |-> VideoBitrate(avail, duration),
                  audioBitrate    |-> baseAudioBitrate,
                  newWidth        |-> best.w,
                  newHeight       |-> best.h,
                  minWidth        |-> min.minWidth,
                  minHeight       |-> min.minHeight,
                  minVideoBitrate |-> min.minVideoBitrate]

\* One call, as the log of calls keeps it: its arguments, what it gave, and
\* the audio bitrate the engine's last probe had found by then.
PlanCall(in, out) ==
    [input |-> in, output |-> out, probed |-> info.audioBitrate]

(***************************************************************************)
(* The engine and the diagnostic lines it emits                            *)
(***************************************************************************)

\* A bound of the model: the tool calls one behaviour makes.
MaxCalls == 2

\* The groups of a match of (\d+):(\d+):(\d+)\.(\d+); frac is the digit
\* string after the point.
Tok(hh, mm, ss, frac) == [hh |-> hh, mm |-> mm, ss |-> ss, frac |-> frac]

\* A string the pattern does not match: match is null.
NoMatch == Tok(0, 0, 0, <<>>)

\* parseInt(digits, 10) of a string of decimal digits
RECURSIVE ParseInt(_)
ParseInt(digits) ==
    IF digits = <<>> THEN 0
    ELSE 10 * ParseInt(SubSeq(digits, 1, Len(digits) - 1))
            + digits[Len(digits)]

\* parseTimeToSeconds on a string holding the match tok, in centiseconds:
\* H * 3600 + M * 60 + S + parseInt(frac) / 100 seconds.
parseTimeToSeconds(tok) ==
    IF tok = NoMatch THEN 0
    ELSE tok.hh * 360000 + tok.mm * 6000 + tok.ss * 100 + ParseInt(tok.frac)

\* The handler loadFFmpeg subscribes for good.
ConsoleLogger == [fn |-> "console", call |-> 0, chunk |-> 0]

\* The handler a tool call subscribes around one engine invocation.
Handler(fn, call, chunk) == [fn |-> fn, call |-> call, chunk |-> chunk]

NoResult == [ok |-> FALSE, error |-> "none"]

EngineError == "exec failed"

MissingDuration == "Could not determine video duration."

MissingResolution == "Could not determine video resolution."

DurationTokens ==
    { Tok(0, 0, 0, <<0, 0>>), Tok(0, 0, 12, <<3, 4>>), Tok(1, 2, 3, <<4, 5>>) }

\* The lines a probe invocation (-i input -f null -t 0 -) may print.
ProbeLines ==
    [kind : {"Duration"}, tok : DurationTokens]
      \cup [kind : {"Video"}, w : {0, 1920}, h : {0, 1080}]
      \cup [kind : {"Audio"}, kbps : {192}]
      \cup [kind : {"other"}]

NoArgs == [fileName |-> "", fileSize |-> 1, duration |-> 0,
           maxChunkBytes |-> 0, variant |-> "ts"]

NoProgress == [current |-> 0, total |-> 0, message |-> "", percent |-> 0]

NoCompressArgs ==
    [plan |-> [videoBitrate |-> 0, audioBitrate |-> 0, newWidth |-> 0,
               newHeight |-> 0],
     duration |-> 0]

\* The null of the file state.
NoFile == [name |-> [base |-> "", suffix |-> "", ext |-> ""], size |-> 0]

NoInfo == [duration |-> 0, width |-> 0, height |-> 0, audioBitrate |-> 128000]

InitEngine ==
    /\ pc = "idle"
    /\ op = "none"
    /\ calls = 0
    /\ listeners = {ConsoleLogger}
    /\ fs = {}
    /\ seen = {}
    /\ durationStr = <<>>
    /\ info = NoInfo
    /\ result = NoResult
    /\ args = NoArgs
    /\ currentTime = 0
    /\ chunkIndex = 0
    /\ lastTime = 0
    /\ chunks = <<>>
    /\ progress = NoProgress
    /\ cargs = NoCompressArgs
    /\ passes = <<>>
    /\ blob = 0
    /\ deleteCalls = {}
    /\ page = "none"
    /\ files = <<>>
    /\ fileIndex = 0
    /\ newResults = <<>>
    /\ results = <<>>
    /\ processing = FALSE
    /\ mounted = FALSE
    /\ stage = "idle"
    /\ tasks = <<>>
    /\ file = NoFile
    /\ targetMB = 25
    /\ videoInfo = NoInfo
    /\ plan = NoPlan
    /\ probing = FALSE
    /\ ffmpeg = 0
    /\ engines = <<>>
    /\ loads = <<>>
    /\ sinks = {}

\* The onProgress a compressVideo or convertMedia call was given, with the
\* duration its log handlers close over; late: it was handed an event after
\* its call had ended.
Sink(call, duration) == [call |-> call, duration |-> duration, late |-> FALSE]

\* The engine's line goes to every handler subscribed: a handler of an
\* earlier call that is still subscribed hands the time of a time= line to
\* that call's onProgress when its duration is known.
Deliver(line) ==
    { IF /\ r.call # calls
         /\ \E h \in listeners : h.call = r.call
         /\ line.kind = "time"
         /\ r.duration > 0
      THEN [r EXCEPT !.late = TRUE]
      ELSE r : r \in sinks }

\* No tool call is running: a new one may start.
Callable == pc \in {"idle", "returned", "threw"} /\ calls < MaxCalls

(***************************************************************************)
(* The probes: getVideoDuration, getMediaDuration, getVideoInfo            *)
(***************************************************************************)

\* The code up to the await of exec: the closure variables, ffmpeg.on.
ProbeStart(f) ==
    /\ op' = f
    /\ calls' = calls + 1
    /\ pc' = "probe"
    /\ durationStr' = <<>>
    /\ info' = NoInfo
    /\ listeners' = listeners \cup {Handler("logHandler", calls + 1, 0)}
    /\ seen' = {}
    /\ result' = NoResult
    /\ deleteCalls' = {}
    /\ UNCHANGED <<planVars, compressVars, fs, splitVars, sinks>>

ProbeCall(f) ==
    /\ Callable
    /\ ProbeStart(f)
    /\ UNCHANGED pageVars

GetVideoDurationCall == ProbeCall("getVideoDuration")

GetMediaDurationCall == ProbeCall("getMediaDuration")

GetVideoInfoCall == ProbeCall("getVideoInfo")

\* logHandler of getVideoDuration and getMediaDuration
DurationLogHandler(line) ==
    IF line.kind = "Duration" THEN <<line.tok>> ELSE durationStr

\* logHandler of getVideoInfo
InfoLogHandler(line) ==
    CASE line.kind = "Duration" ->
            [info EXCEPT !.duration = parseTimeToSeconds(line.tok)]
      [] line.kind = "Video" ->
            [info EXCEPT !.width = line.w, !.height = line.h]
      [] line.kind = "Audio" ->
            [info EXCEPT !.audioBitrate = line.kbps * 1000]
      [] OTHER -> info

\* The engine prints a line while the probe's invocation runs: the handler
\* the call subscribed runs on it.
ProbeLogLine ==
    /\ pc = "probe"
    /\ \E line \in ProbeLines :
          /\ seen' = seen \cup {line.kind}
          /\ IF op = "getVideoInfo"
             THEN info' = InfoLogHandler(line) /\ UNCHANGED durationStr
             ELSE durationStr' = DurationLogHandler(line) /\ UNCHANGED info
    /\ UNCHANGED <<planVars, pageVars, sinks, deleteCalls, compressVars, callVars, listeners, fs, splitVars>>

VideoDurationResultSilent(str) ==
    IF str = <<>>
    THEN [ok |-> TRUE, value |-> 0]
    ELSE [ok |-> TRUE, value |-> parseTimeToSeconds(str[1])]

\* getVideoDuration after the invocation: throw without a match
VideoDurationResult(str) ==
    IF str = <<>>
    THEN [ok |-> FALSE, error |-> MissingDuration]
    ELSE [ok |-> TRUE, value |-> parseTimeToSeconds(str[1])]

\* getMediaDuration after the invocation: "Unknown duration" is 0
MediaDurationResult(str) ==
    IF str = <<>>
    THEN [ok |-> TRUE, value |-> 0]
    ELSE [ok |-> TRUE, value |-> parseTimeToSeconds(str[1])]

VideoInfoResultNoResolutionCheck(i) ==
    IF i.duration = 0
    THEN [ok |-> FALSE, error |-> MissingDuration]
    ELSE [ok |-> TRUE, value |-> i]

\* getVideoInfo after the invocation: the duration check, then the resolution
VideoInfoResult(i) ==
    IF i.duration = 0
    THEN [ok |-> FALSE, error |-> MissingDuration]
    ELSE IF i.width = 0 \/ i.height = 0
    THEN [ok |-> FALSE, error |-> MissingResolution]
    ELSE [ok |-> TRUE, value |-> i]

\* exec resolved: ffmpeg.off, then the function's checks and its return.
ProbeReturn(f, res) ==
    /\ pc = "probe"
    /\ op = f
    /\ listeners' = listeners \ {Handler("logHandler", calls, 0)}
    /\ result' = res
    /\ pc' = IF res.ok THEN "returned" ELSE "threw"
    /\ UNCHANGED <<planVars, pageVars, sinks, deleteCalls, compressVars, op, calls, fs, seen, probeVars, splitVars>>

GetVideoDurationReturn ==
    ProbeReturn("getVideoDuration", VideoDurationResult(durationStr))

GetMediaDurationReturn ==
    ProbeReturn("getMediaDuration", MediaDurationResult(durationStr))

GetVideoInfoReturn == ProbeReturn("getVideoInfo", VideoInfoResult(info))

\* exec rejected: the await throws out of the function, past ffmpeg.off.
ProbeExecFail ==
    /\ pc = "probe"
    /\ result' = [ok |-> FALSE, error |-> EngineError]
    /\ pc' = "threw"
    /\ UNCHANGED <<planVars, pageVars, sinks, deleteCalls, compressVars, op, calls, engineVars, probeVars, splitVars>>

InitProbe ==
    /\ planIn = [fileSize |-> 0, duration |-> 0, width |-> 0, height |-> 0,
                 targetBytes |-> 0]
    /\ planOut = NoPlan
    /\ plans = <<>>
    /\ InitEngine

NextProbe ==
    \/ GetVideoDurationCall
    \/ GetMediaDurationCall
    \/ GetVideoInfoCall
    \/ ProbeLogLine
    \/ GetVideoDurationReturn
    \/ GetMediaDurationReturn
    \/ GetVideoInfoReturn
    \/ ProbeExecFail

SpecProbe == InitProbe /\ [][NextProbe]_vars

(***************************************************************************)
(* splitVideo                                                              *)
(*                                                                         *)
(* Two variants of the function are in the repository: "ts" is             *)
(* tools/video-chunker.ts (estimate maxChunkBytes / avgBitrate, re-encode  *)
(* of an oversized chunk), "js" the earlier ffmpeg-worker (estimate        *)
(* maxChunkBytes * 0.95 / avgBitrate, no re-encode).  A call picks one.    *)
(* The calls of one behaviour follow one another on the same engine, as    *)
(* the files of a batch or the retries of a user do.                       *)
(***************************************************************************)

SplitFileNames == {"a"}

\* KiB
SplitFileSizes == {3, 7}

\* centiseconds; the loop body never runs for a duration of 0.1 s
SplitDurations == {10, 25}

\* KiB
SplitMaxChunkBytes == {1, 2}

SplitVariants == {"ts", "js"}

\* The elapsed times a segment's invocation may report: 0 s, 0.04 s, 0.12 s.
TimeTokens ==
    { Tok(0, 0, 0, <<0, 0>>), Tok(0, 0, 0, <<0, 4>>), Tok(0, 0, 0, <<1, 2>>) }

SegmentLines == [kind : {"time"}, tok : TimeTokens] \cup [kind : {"other"}]

\* currentTime and estimatedChunkDuration are kept exact as numerators over
\* this denominator: one unit is 1 / (20 * fileSize) centiseconds.
TimeDen(a) == 20 * a.fileSize

\* estimatedChunkDuration = maxChunkBytes / (fileSize / duration), with the
\* factor 0.95 on maxChunkBytes in the "js" variant; numerator over TimeDen.
estimatedChunkDuration(a) ==
    IF a.variant = "ts"
    THEN 20 * a.maxChunkBytes * a.duration
    ELSE 19 * a.maxChunkBytes * a.duration

\* estimatedTotalChunks = Math.ceil(duration / estimatedChunkDuration)
estimatedTotalChunks(a) ==
    (a.duration * TimeDen(a) + estimatedChunkDuration(a) - 1)
        \div estimatedChunkDuration(a)

\* Math.max
MathMax(x, y) == IF x >= y THEN x ELSE y

\* The event of the loop body: chunk idx starts at currentTime = ct.
ChunkProgress(a, ct, idx) ==
    [current |-> idx,
     total   |-> MathMax(estimatedTotalChunks(a), idx),
     message |-> "Splitting chunk",
     percent |-> MathRound(100 * ct, a.duration * TimeDen(a))]

\* A final event that counts at least one chunk.
DoneProgressAtLeastOne(idx) ==
    [current |-> MathMax(idx, 1), total |-> MathMax(idx, 1),
     message |-> "Done!", percent |-> 100]

\* The event after the loop.
DoneProgress(idx) ==
    [current |-> idx, total |-> idx, message |-> "Done!", percent |-> 100]

\* currentTime < duration - 0.1
LoopCondition(a, ct) == ct < (a.duration - 10) * TimeDen(a)

\* `${baseName}_part${chunkIndex padded}${ext}`
ChunkName(a, idx) == [base |-> a.fileName, part |-> idx]

\* An advance by the estimate, whatever the engine reported.
actualChunkDurationEstimated(a, lt) == estimatedChunkDuration(a)

actualChunkDurationNoFallback(a, lt) == lt * TimeDen(a)

\* lastTime > 0 ? lastTime : estimatedChunkDuration, numerator over TimeDen
actualChunkDuration(a, lt) ==
    IF lt > 0 THEN lt * TimeDen(a) ELSE estimatedChunkDuration(a)

\* 512 * 1024 bytes, in KiB as every size of splitVideo is here.
Margin == 512

\* safeBytes = maxChunkBytes - 512 * 1024
safeBytes(a) == a.maxChunkBytes - Margin

\* The -fs argument of the segment's invocation: safeBytes, and in the "js"
\* variant maxChunkBytes.
FsLimit(a) == IF a.variant = "ts" THEN safeBytes(a) ELSE a.maxChunkBytes

\* The sizes an invocation with -fs limit may leave in its output, for an
\* engine that overshoots a cap by less than 512 KiB: the cap, and the
\* largest overshoot.
CappedSizes(limit) == {limit, limit + Margin - 1}

\* The sizes the first readFile may find.  A limit of 0 or below is no cap
\* the engine holds to: the size is then within maxChunkBytes, or above it.
BlobSizes(a) ==
    IF FsLimit(a) > 0
    THEN CappedSizes(FsLimit(a))
    ELSE {a.maxChunkBytes, a.maxChunkBytes + 1}

\* The sizes the second readFile may find: the re-encode has -fs
\* maxChunkBytes.
RedoneSizes(a) == CappedSizes(a.maxChunkBytes)

\* The while loop's head with currentTime = ct, after idx chunks: either the
\* iteration starts (chunkIndex++, onProgress, ffmpeg.on, the await of exec)
\* or the loop ends, onProgress gets the final event and splitVideo returns
\* cks.
While(a, ct, call, idx, cks) ==
    /\ currentTime' = ct
    /\ chunks' = cks
    /\ IF LoopCondition(a, ct)
       THEN /\ chunkIndex' = idx + 1
            /\ progress' = ChunkProgress(a, ct, idx + 1)
            /\ lastTime' = 0
            /\ listeners' =
                  listeners \cup {Handler("timeHandler", call, idx + 1)}
            /\ pc' = "segment"
            /\ result' = NoResult
       ELSE /\ chunkIndex' = idx
            /\ progress' = DoneProgress(idx)
            /\ pc' = "returned"
            /\ result' = [ok |-> TRUE, value |-> cks]
            /\ UNCHANGED <<lastTime, listeners>>

SplitInputs ==
    [fileName      : SplitFileNames,
     fileSize      : SplitFileSizes,
     duration      : SplitDurations,
     maxChunkBytes : SplitMaxChunkBytes,
     variant       : SplitVariants]

\* splitVideo is called with arguments from inputs.
SplitCallOn(inputs) ==
    /\ Callable
    /\ \E a \in inputs :
          /\ args' = a
          /\ While(a, 0, calls + 1, 0, <<>>)
    /\ op' = "splitVideo"
    /\ calls' = calls + 1
    /\ seen' = {}
    /\ deleteCalls' = {}
    /\ UNCHANGED <<planVars, pageVars, sinks, compressVars, fs, probeVars>>

SplitCall == SplitCallOn(SplitInputs)

\* The engine prints one of lines during the segment's invocation or the
\* re-encode: timeHandler, subscribed during the first only, keeps the time.
SplitLogLineOf(lines) ==
    /\ pc \in {"segment", "reencode"}
    /\ \E line \in lines :
          /\ lastTime' =
                 IF /\ Handler("timeHandler", calls, chunkIndex) \in listeners
                    /\ line.kind = "time"
                 THEN parseTimeToSeconds(line.tok)
                 ELSE lastTime
          /\ sinks' = Deliver(line)
    /\ UNCHANGED <<planVars, pageVars, deleteCalls, compressVars, callVars, engineVars, probeVars, args,
                   currentTime, chunkIndex, chunks, progress>>

SplitLogLine == SplitLogLineOf(SegmentLines)

\* The engine creates (or overwrites) the output file of the invocation.
ExecWrite ==
    /\ pc \in {"segment", "reencode"}
    /\ fs' = fs \cup {ChunkName(args, chunkIndex)}
    /\ UNCHANGED <<planVars, pageVars, sinks, deleteCalls, compressVars, callVars, listeners, seen, probeVars, splitVars>>

\* A rejected await: the error leaves splitVideo and nothing else of it
\* runs; its locals (currentTime, chunkIndex, lastTime, chunks) go with its
\* frame, the caller gets the error alone.
SplitThrows(from, error) ==
    /\ pc \in from
    /\ pc' = "threw"
    /\ result' = [ok |-> FALSE, error |-> error]
    /\ currentTime' = 0
    /\ chunkIndex' = 0
    /\ lastTime' = 0
    /\ chunks' = <<>>
    /\ UNCHANGED <<planVars, pageVars, sinks, deleteCalls, compressVars, op, calls, engineVars, probeVars, args,
                   progress>>

\* exec of the segment resolved: ffmpeg.off, then the await of readFile.
SegmentReturn ==
    /\ pc = "segment"
    /\ listeners' = listeners \ {Handler("timeHandler", calls, chunkIndex)}
    /\ pc' = "read"
    /\ UNCHANGED <<planVars, pageVars, sinks, deleteCalls, compressVars, op, calls, result, fs, seen, probeVars, splitVars>>

SegmentFail == SplitThrows({"segment"}, EngineError)

\* readFile resolved with a blob: an oversized one is re-encoded ("ts"),
\* any other is pushed and deleteFile awaited.
ReadReturn ==
    /\ pc = "read"
    /\ ChunkName(args, chunkIndex) \in fs
    /\ \E size \in BlobSizes(args) :
          IF args.variant = "ts" /\ size > args.maxChunkBytes
          THEN /\ pc' = "reencode"
               /\ UNCHANGED <<chunks, deleteCalls>>
          ELSE /\ pc' = "delete"
               /\ chunks' = Append(chunks,
                     [name |-> ChunkName(args, chunkIndex), size |-> size])
               /\ deleteCalls' =
                     deleteCalls \cup {ChunkName(args, chunkIndex)}
    /\ UNCHANGED <<planVars, pageVars, sinks, compressVars, op, calls, result, engineVars, probeVars,
                   args, currentTime, chunkIndex, lastTime, progress>>

ReadFail == SplitThrows({"read", "reread"}, "readFile failed")

\* exec of the re-encode resolved: the await of the second readFile.
ReencodeReturn ==
    /\ pc = "reencode"
    /\ pc' = "reread"
    /\ UNCHANGED <<planVars, pageVars, sinks, deleteCalls, compressVars, op, calls, result, engineVars, probeVars,
                   splitVars>>

ReencodeFail == SplitThrows({"reencode"}, EngineError)

\* The second readFile resolved: reBlob is pushed, deleteFile awaited.
RereadReturn ==
    /\ pc = "reread"
    /\ ChunkName(args, chunkIndex) \in fs
    /\ \E size \in RedoneSizes(args) :
          chunks' = Append(chunks,
                [name |-> ChunkName(args, chunkIndex), size |-> size])
    /\ deleteCalls' = deleteCalls \cup {ChunkName(args, chunkIndex)}
    /\ pc' = "delete"
    /\ UNCHANGED <<planVars, pageVars, sinks, compressVars, op, calls, result, engineVars, probeVars, args,
                   currentTime, chunkIndex, lastTime, progress>>

\* deleteFile resolved: currentTime advances and the loop tests again.
DeleteReturn ==
    /\ pc = "delete"
    /\ ChunkName(args, chunkIndex) \in fs
    /\ fs' = fs \ {ChunkName(args, chunkIndex)}
    /\ While(args, currentTime + actualChunkDuration(args, lastTime), calls,
             chunkIndex, chunks)
    /\ UNCHANGED <<planVars, pageVars, sinks, deleteCalls, compressVars, op, calls, seen, probeVars, args>>

DeleteFail == SplitThrows({"delete"}, "deleteFile failed")

InitSplit == InitProbe

NextSplit ==
    \/ SplitCall
    \/ SplitLogLine
    \/ ExecWrite
    \/ SegmentReturn
    \/ SegmentFail
    \/ ReadReturn
    \/ ReadFail
    \/ ReencodeReturn
    \/ ReencodeFail
    \/ RereadReturn
    \/ DeleteReturn
    \/ DeleteFail

SpecSplit == InitSplit /\ [][NextSplit]_vars

\* Every await of splitVideo is answered: the engine resolves or rejects it.
EngineAnswers ==
    \/ SegmentReturn
    \/ SegmentFail
    \/ ReadReturn
    \/ ReadFail
    \/ ReencodeReturn
    \/ ReencodeFail
    \/ RereadReturn
    \/ DeleteReturn
    \/ DeleteFail

FairSpecSplit == SpecSplit /\ WF_vars(EngineAnswers)

(***************************************************************************)
(* splitVideo on a source of half a minute: the same steps, on inputs      *)
(* whose durations are 0.1 s (the loop body never runs) and 30 s, with an  *)
(* engine that reports 29.87 s of elapsed time or nothing.                 *)
(***************************************************************************)

\* centiseconds
LongDurations == {10, 3000}

LongInputs ==
    [fileName      : SplitFileNames,
     fileSize      : {3},
     duration      : LongDurations,
     maxChunkBytes : {1},
     variant       : SplitVariants]

LongLines ==
    [kind : {"time"}, tok : {Tok(0, 0, 29, <<8, 7>>)}] \cup [kind : {"other"}]

LongSplitCall == SplitCallOn(LongInputs)

LongSplitLogLine == SplitLogLineOf(LongLines)

InitSplitLong == InitProbe

NextSplitLong ==
    \/ LongSplitCall
    \/ LongSplitLogLine
    \/ ExecWrite
    \/ SegmentReturn
    \/ SegmentFail
    \/ ReadReturn
    \/ ReadFail
    \/ ReencodeReturn
    \/ ReencodeFail
    \/ RereadReturn
    \/ DeleteReturn
    \/ DeleteFail

SpecSplitLong == InitSplitLong /\ [][NextSplitLong]_vars

(***************************************************************************)
(* splitVideo on limits around its margin of 512 KiB: the same steps, on a *)
(* source of 2000 KiB and limits of 256 KiB and 513 KiB.                   *)
(***************************************************************************)

CapInputs ==
    [fileName      : SplitFileNames,
     fileSize      : {2000},
     duration      : {25},
     maxChunkBytes : {256, 513},
     variant       : SplitVariants]

CapSplitCall == SplitCallOn(CapInputs)

InitSplitCap == InitProbe

NextSplitCap ==
    \/ CapSplitCall
    \/ SplitLogLine
    \/ ExecWrite
    \/ SegmentReturn
    \/ SegmentFail
    \/ ReadReturn
    \/ ReadFail
    \/ ReencodeReturn
    \/ ReencodeFail
    \/ RereadReturn
    \/ DeleteReturn
    \/ DeleteFail

SpecSplitCap == InitSplitCap /\ [][NextSplitCap]_vars

(***************************************************************************)
(* parseTimeToSeconds on its own: a caller parses one string after         *)
(* another and keeps the string and the value.                             *)
(***************************************************************************)

\* The fractional parts \d+ admits, of one, two and three digits.
Fractions ==
    UNION { [1..n -> {0, 4, 5}] : n \in 1..3 }

\* The strings parsed: those holding a match, and one holding none.
TimeStrings ==
    { Tok(hh, mm, ss, frac) :
        hh \in {0, 1}, mm \in {0, 2}, ss \in {0, 3, 59}, frac \in Fractions }
      \cup {NoMatch}

ParseTime ==
    /\ \E str \in TimeStrings :
          /\ durationStr' = <<str>>
          /\ lastTime' = parseTimeToSeconds(str)
    /\ UNCHANGED <<planVars, pageVars, sinks, deleteCalls, compressVars, callVars,
                   engineVars, info, args, currentTime, chunkIndex, chunks,
                   progress>>

InitParse == InitProbe

NextParse == ParseTime

SpecParse == InitParse /\ [][NextParse]_vars

(***************************************************************************)
(* compressVideo                                                           *)
(***************************************************************************)

\* The arguments calculateCompression is given for the plans to encode: a
\* plan at 1570667 bit/s on the source's 1080 lines, one at 400 bit/s on 144.
CompressPlanInputs ==
    { [fileSize |-> 100000000, duration |-> 12000, width |-> 1920,
       height |-> 1080, targetBytes |-> 25000000],
      [fileSize |-> 100000000, duration |-> 12000, width |-> 1920,
       height |-> 1080, targetBytes |-> 1446000] }

CompressPlans ==
    { calculateCompression(i.fileSize, i.duration, i.width, i.height,
                           i.targetBytes) : i \in CompressPlanInputs }

\* centiseconds; 0 is what an unknown duration is passed as
CompressDurations == {0, 10}

\* A file of the engine's workspace that is no segment.
Artifact(name) == [base |-> name, part |-> 0]

outputName == Artifact("compressed_output.mp4")

PassLog == Artifact("/tmp/ffmpeg2pass-0.log")

PassLogTree == Artifact("/tmp/ffmpeg2pass-0.log.mbtree")

\* Math.max(1, Math.round(plan.videoBitrate / 1000))
videoBitrateK(p) == MathMax(1, MathRound(p.videoBitrate, 1000))

\* Math.round(plan.audioBitrate / 1000)
audioBitrateK(p) == MathRound(p.audioBitrate, 1000)

\* `scale=${plan.newWidth}:${plan.newHeight}`
scaleValue(p) == <<p.newWidth, p.newHeight>>

\* The argument list of pass n, as far as it depends on the plan, and how
\* the invocation stands: "running", "ok" or "failed".
Pass(n, a, state) ==
    [pass    |-> n,
     video   |-> videoBitrateK(a.plan),
     audio   |-> IF n = 2 THEN audioBitrateK(a.plan) ELSE 0,
     scale   |-> scaleValue(a.plan),
     state   |-> state]

\* The last invocation ends in state st.
Ended(ps, st) == [ps EXCEPT ![Len(ps)].state = st]

\* Math.min(Math.round((currentTime / duration) * 45), 45)
PassPercent(t, duration) ==
    LET r == MathRound(45 * t, duration) IN IF r <= 45 THEN r ELSE 45

\* The event of pass1LogHandler / pass2LogHandler on a time= line.
PassProgress(n, t, duration) ==
    IF n = 1
    THEN [percent |-> PassPercent(t, duration),
          message |-> "Pass 1/2: Analyzing..."]
    ELSE [percent |-> 50 + PassPercent(t, duration),
          message |-> "Pass 2/2: Encoding..."]

\* The code up to the first await: onProgress, ffmpeg.on, exec of pass 1.
CompressStart(a) ==
    /\ cargs' = a
    /\ passes' = <<Pass(1, a, "running")>>
    /\ op' = "compressVideo"
    /\ calls' = calls + 1
    /\ pc' = "pass1"
    /\ progress' = [percent |-> 0, message |-> "Pass 1/2: Analyzing video..."]
    /\ listeners' = listeners \cup {Handler("pass1LogHandler", calls + 1, 0)}
    /\ blob' = 0
    /\ result' = NoResult
    /\ seen' = {}
    /\ deleteCalls' = {}
    /\ sinks' = sinks \cup {Sink(calls + 1, a.duration)}
    /\ UNCHANGED <<fs, probeVars, args, currentTime, chunkIndex, lastTime,
                   chunks>>

CompressCall ==
    /\ Callable
    /\ \E a \in [plan : CompressPlans, duration : CompressDurations] :
          CompressStart(a)
    /\ UNCHANGED <<planVars, pageVars>>

\* The engine prints a line during a pass: the pass's handler reports the
\* time of a time= line when the duration is known.
CompressLogLine ==
    /\ pc \in {"pass1", "pass2"}
    /\ \E line \in SegmentLines :
          /\ progress' =
                 IF line.kind = "time" /\ cargs.duration > 0
                 THEN PassProgress(IF pc = "pass1" THEN 1 ELSE 2,
                                   parseTimeToSeconds(line.tok), cargs.duration)
                 ELSE progress
          /\ sinks' = Deliver(line)
    /\ UNCHANGED <<planVars, pageVars, deleteCalls, compressVars, callVars, engineVars, probeVars,
                   args, currentTime, chunkIndex, lastTime, chunks>>

\* The engine creates the files of the pass: the statistics logs in pass 1,
\* the output in pass 2.
CompressWrite ==
    /\ pc \in {"pass1", "pass2"}
    /\ \E f \in IF pc = "pass1" THEN {PassLog, PassLogTree} ELSE {outputName} :
          fs' = fs \cup {f}
    /\ UNCHANGED <<planVars, pageVars, sinks, deleteCalls, compressVars, callVars, listeners, seen,
                   probeVars, splitVars>>

\* A rejected await outside any try: the error leaves compressVideo.
CompressThrows(from, error) ==
    /\ pc = from
    /\ pc' = "threw"
    /\ result' = [ok |-> FALSE, error |-> error]
    /\ UNCHANGED <<planVars, pageVars, sinks, deleteCalls, op, calls, engineVars, probeVars, splitVars,
                   cargs, blob>>

\* exec of pass 1 resolved: ffmpeg.off, onProgress, ffmpeg.on, exec of pass 2.
Pass1Return ==
    /\ pc = "pass1"
    /\ listeners' = (listeners \ {Handler("pass1LogHandler", calls, 0)})
                        \cup {Handler("pass2LogHandler", calls, 0)}
    /\ progress' = [percent |-> 50, message |-> "Pass 2/2: Encoding video..."]
    /\ passes' = Append(Ended(passes, "ok"), Pass(2, cargs, "running"))
    /\ pc' = "pass2"
    /\ UNCHANGED <<planVars, pageVars, sinks, deleteCalls, op, calls, result, fs, seen, probeVars, args,
                   currentTime, chunkIndex, lastTime, chunks, cargs, blob>>

Pass1FailRetry ==
    /\ pc = "pass1"
    /\ Len(passes) < 2
    /\ passes' = Append(Ended(passes, "failed"), Pass(1, cargs, "running"))
    /\ UNCHANGED <<planVars, pageVars, sinks, deleteCalls, callVars, engineVars, probeVars, splitVars,
                   cargs, blob>>

\* exec of pass 1 rejected
Pass1Fail ==
    /\ CompressThrows("pass1", EngineError)
    /\ passes' = Ended(passes, "failed")

\* exec of pass 2 resolved: ffmpeg.off, onProgress, the await of readFile.
Pass2Return ==
    /\ pc = "pass2"
    /\ listeners' = listeners \ {Handler("pass2LogHandler", calls, 0)}
    /\ progress' = [percent |-> 98, message |-> "Reading output file..."]
    /\ passes' = Ended(passes, "ok")
    /\ pc' = "readOutput"
    /\ UNCHANGED <<planVars, pageVars, sinks, deleteCalls, op, calls, result, fs, seen, probeVars, args,
                   currentTime, chunkIndex, lastTime, chunks, cargs, blob>>

\* exec of pass 2 rejected
Pass2Fail ==
    /\ CompressThrows("pass2", EngineError)
    /\ passes' = Ended(passes, "failed")

\* The sizes readFile may find for the output.
OutputSizes == {1, 2}

\* readFile resolved: the blob is built, deleteFile(outputName) awaited.
OutputReadReturn ==
    /\ pc = "readOutput"
    /\ outputName \in fs
    /\ \E size \in OutputSizes : blob' = size
    /\ deleteCalls' = deleteCalls \cup {outputName}
    /\ pc' = "deleteOutput"
    /\ UNCHANGED <<planVars, pageVars, sinks, op, calls, result, engineVars, probeVars,
                   splitVars, cargs, passes>>

OutputReadFail ==
    /\ CompressThrows("readOutput", "readFile failed")
    /\ UNCHANGED passes

\* deleteFile(outputName) resolved: the try block, its first deleteFile.
OutputDeleteReturn ==
    /\ pc = "deleteOutput"
    /\ outputName \in fs
    /\ fs' = fs \ {outputName}
    /\ deleteCalls' = deleteCalls \cup {PassLog}
    /\ pc' = "deleteLog"
    /\ UNCHANGED <<planVars, pageVars, sinks, compressVars, op, calls, result, listeners, seen,
                   probeVars, splitVars>>

\* deleteFile(outputName) rejected: the await is outside the try block.
OutputDeleteFail ==
    /\ CompressThrows("deleteOutput", "deleteFile failed")
    /\ UNCHANGED passes

\* The end of compressVideo: return blob.
CompressReturn(from) ==
    /\ pc = from
    /\ pc' = "returned"
    /\ result' = [ok |-> TRUE, value |-> blob]
    /\ UNCHANGED <<planVars, pageVars, sinks, deleteCalls, compressVars, op, calls, listeners, seen,
                   probeVars, splitVars>>

\* deleteFile of the first statistics log resolved: the second is awaited.
LogDeleteReturn ==
    /\ pc = "deleteLog"
    /\ PassLog \in fs
    /\ fs' = fs \ {PassLog}
    /\ deleteCalls' = deleteCalls \cup {PassLogTree}
    /\ pc' = "deleteLogTree"
    /\ UNCHANGED <<planVars, pageVars, sinks, compressVars, op, calls, result, listeners, seen,
                   probeVars, splitVars>>

\* It rejected: the catch block ignores the error, the second is skipped.
LogDeleteFail ==
    /\ CompressReturn("deleteLog")
    /\ UNCHANGED fs

\* deleteFile of the second statistics log resolved.
LogTreeDeleteReturn ==
    /\ CompressReturn("deleteLogTree")
    /\ PassLogTree \in fs
    /\ fs' = fs \ {PassLogTree}

\* It rejected: the catch block ignores the error.
LogTreeDeleteFail ==
    /\ CompressReturn("deleteLogTree")
    /\ UNCHANGED fs

InitCompress == InitProbe

NextCompress ==
    \/ CompressCall
    \/ CompressLogLine
    \/ CompressWrite
    \/ Pass1Return
    \/ Pass1Fail
    \/ Pass2Return
    \/ Pass2Fail
    \/ OutputReadReturn
    \/ OutputReadFail
    \/ OutputDeleteReturn
    \/ OutputDeleteFail
    \/ LogDeleteReturn
    \/ LogDeleteFail
    \/ LogTreeDeleteReturn
    \/ LogTreeDeleteFail

SpecCompress == InitCompress /\ [][NextCompress]_vars

(***************************************************************************)
(* convertMedia                                                            *)
(***************************************************************************)

targetFormat == "mp4"

\* `output.${outputFormat}`
ConvertedName == Artifact("output.mp4")

\* Math.min(Math.round((currentTime / duration) * 100), 100)
ConvertPercent(t, duration) ==
    LET r == MathRound(100 * t, duration) IN IF r <= 100 THEN r ELSE 100

\* The code up to the await of exec; duration is the argument of that name.
ConvertStart(duration) ==
    /\ op' = "convertMedia"
    /\ calls' = calls + 1
    /\ pc' = "convert"
    /\ cargs' = [NoCompressArgs EXCEPT !.duration = duration]
    /\ listeners' = listeners \cup {Handler("logHandler", calls + 1, 0)}
    /\ blob' = 0
    /\ result' = NoResult
    /\ seen' = {}
    /\ deleteCalls' = {}
    /\ sinks' = sinks \cup {Sink(calls + 1, duration)}
    /\ UNCHANGED <<planVars, fs, probeVars, splitVars, passes>>

\* The engine prints a line during the conversion: logHandler reports the
\* time of a time= line when the duration is known.
ConvertLogLine ==
    /\ pc = "convert"
    /\ \E line \in SegmentLines :
          /\ progress' =
                 IF line.kind = "time" /\ cargs.duration > 0
                 THEN [percent |-> ConvertPercent(parseTimeToSeconds(line.tok),
                                                  cargs.duration),
                       message |-> "Converting..."]
                 ELSE progress
          /\ sinks' = Deliver(line)
    /\ UNCHANGED <<planVars, pageVars, deleteCalls, compressVars, callVars,
                   engineVars, probeVars, args, currentTime, chunkIndex,
                   lastTime, chunks>>

\* The engine creates the output file.
ConvertWrite ==
    /\ pc = "convert"
    /\ fs' = fs \cup {ConvertedName}
    /\ UNCHANGED <<planVars, pageVars, sinks, deleteCalls, compressVars, callVars,
                   listeners, seen, probeVars, splitVars>>

\* A rejected await: the error leaves convertMedia.
ConvertThrows(from, error) ==
    /\ pc = from
    /\ pc' = "threw"
    /\ result' = [ok |-> FALSE, error |-> error]
    /\ UNCHANGED <<planVars, pageVars, sinks, deleteCalls, compressVars, op, calls,
                   engineVars, probeVars, splitVars>>

\* exec resolved: ffmpeg.off, then the await of readFile.
ConvertReturn ==
    /\ pc = "convert"
    /\ listeners' = listeners \ {Handler("logHandler", calls, 0)}
    /\ pc' = "readConverted"
    /\ UNCHANGED <<planVars, pageVars, sinks, deleteCalls, compressVars, op, calls,
                   result, fs, seen, probeVars, splitVars>>

ConvertFail == ConvertThrows("convert", EngineError)

\* readFile resolved: the blob is built, deleteFile(outputName) awaited.
ConvertedReadReturn ==
    /\ pc = "readConverted"
    /\ ConvertedName \in fs
    /\ \E size \in OutputSizes : blob' = size
    /\ deleteCalls' = deleteCalls \cup {ConvertedName}
    /\ pc' = "deleteConverted"
    /\ UNCHANGED <<planVars, pageVars, sinks, op, calls, result, engineVars,
                   probeVars, splitVars, cargs, passes>>

ConvertedReadFail == ConvertThrows("readConverted", "readFile failed")

\* deleteFile resolved: return blob.
ConvertedDeleteReturn ==
    /\ pc = "deleteConverted"
    /\ ConvertedName \in fs
    /\ fs' = fs \ {ConvertedName}
    /\ pc' = "returned"
    /\ result' = [ok |-> TRUE, value |-> blob]
    /\ UNCHANGED <<planVars, pageVars, sinks, deleteCalls, compressVars, op, calls,
                   listeners, seen, probeVars, splitVars>>

ConvertedDeleteFail == ConvertThrows("deleteConverted", "deleteFile failed")

(***************************************************************************)
(* The batch pages: handleConvert of the Media Converter ("convert") and   *)
(* handleCompress of the batch Video Compressor ("compress").  Both load   *)
(* the engine, then take the files one after the other: mount, probe,      *)
(* tool call, unmount, with one try/catch around each file.                *)
(***************************************************************************)

\* A bound of the model: the files of a batch.
MaxFiles == 2

BatchPages == {"convert", "compress"}

\* `${base}${suffix}.${ext}`
Name(base, suffix, ext) == [base |-> base, suffix |-> suffix, ext |-> ext]

\* The files a user may add; sizes in bytes.
BatchFiles ==
    { [name |-> Name("a", "", "mov"), size |-> 100000000],
      [name |-> Name("b", "", "mkv"), size |-> 1000] }

FileLists == UNION { [1..n -> BatchFiles] : n \in 1..MaxFiles }

\* targetMB * 1024 * 1024 with the page's initial targetMB of 25
targetBytes == 25 * 1024 * 1024

\* { blob, name } and { name, error } of ResultEntry
ResultEntry(name, b) == [name |-> name, blob |-> b, error |-> ""]

ErrorEntry(name, message) == [name |-> name, blob |-> 0, error |-> message]

\* The tool calls of a page leave the page's state alone, and the page's
\* steps that start no tool call leave the tools' state alone.
toolVars ==
    <<planVars, engineVars, callVars, probeVars, splitVars, compressVars,
      deleteCalls, sinks>>

\* The variables of the batch pages.
batchVars == <<page, files, fileIndex, newResults, stage>>

\* The handler up to its first await: setProcessing(true), setResults([]),
\* loadFFmpeg().
HandleBatch ==
    /\ stage = "idle"
    /\ ~processing
    /\ \E kind \in BatchPages : page' = kind
    /\ \E list \in FileLists : files' = list
    /\ processing' = TRUE
    /\ results' = <<>>
    /\ newResults' = <<>>
    /\ stage' = "loading"
    /\ UNCHANGED <<loadVars, uiVars, toolVars, fileIndex, mounted>>

\* loadFFmpeg resolved: the for loop starts.
LoadReturn ==
    /\ stage = "loading"
    /\ fileIndex' = 1
    /\ stage' = "loop"
    /\ UNCHANGED <<loadVars, uiVars, toolVars, page, files, newResults, results, processing,
                   mounted>>

\* loadFFmpeg rejected: setProcessing(false) and return.
LoadFail ==
    /\ stage = "loading"
    /\ processing' = FALSE
    /\ stage' = "ended"
    /\ UNCHANGED <<loadVars, uiVars, toolVars, page, files, fileIndex, newResults, results,
                   mounted>>

\* The loop is over: setResults(newResults), setProcessing(false).
LoopEnd ==
    /\ stage = "loop"
    /\ fileIndex > Len(files)
    /\ results' = newResults
    /\ processing' = FALSE
    /\ stage' = "ended"
    /\ UNCHANGED <<loadVars, uiVars, toolVars, page, files, fileIndex, newResults, mounted>>

\* if (file.size <= targetBytes): the compressor page only
TooSmallToCompress(f) == page = "compress" /\ f.size <= targetBytes

\* The file is recorded as 'Already smaller than target size': continue.
LoopSkip ==
    /\ stage = "loop"
    /\ fileIndex <= Len(files)
    /\ TooSmallToCompress(files[fileIndex])
    /\ newResults' = Append(newResults,
          ErrorEntry(files[fileIndex].name, "Already smaller than target size"))
    /\ fileIndex' = fileIndex + 1
    /\ UNCHANGED <<loadVars, uiVars, toolVars, page, files, results, processing, mounted, stage>>

\* mountFile, then the page's probe up to its await.
LoopMount ==
    /\ stage = "loop"
    /\ fileIndex <= Len(files)
    /\ ~TooSmallToCompress(files[fileIndex])
    /\ mounted' = TRUE
    /\ ProbeStart(IF page = "convert" THEN "getMediaDuration"
                                      ELSE "getVideoInfo")
    /\ stage' = "probing"
    /\ UNCHANGED <<loadVars, uiVars, page, files, fileIndex, newResults, results, processing>>

CatchAndStop ==
    /\ stage \in {"probing", "running"}
    /\ pc = "threw"
    /\ newResults' = Append(newResults,
                            ErrorEntry(files[fileIndex].name, result.error))
    /\ mounted' = FALSE
    /\ fileIndex' = Len(files) + 1
    /\ stage' = "loop"
    /\ UNCHANGED <<loadVars, uiVars, toolVars, page, files, results, processing>>

\* The catch block of the file: the error is recorded, unmountFile.
Catch ==
    /\ stage \in {"probing", "running"}
    /\ pc = "threw"
    /\ newResults' = Append(newResults,
                            ErrorEntry(files[fileIndex].name, result.error))
    /\ mounted' = FALSE
    /\ fileIndex' = fileIndex + 1
    /\ stage' = "loop"
    /\ UNCHANGED <<loadVars, uiVars, toolVars, page, files, results, processing>>

\* getMediaDuration resolved: convertMedia up to its await.
ProbedConvert ==
    /\ stage = "probing"
    /\ page = "convert"
    /\ pc = "returned"
    /\ ConvertStart(result.value)
    /\ stage' = "running"
    /\ UNCHANGED <<loadVars, uiVars, page, files, fileIndex, newResults, results, processing,
                   mounted>>

\* The arguments handleCompress gives calculateCompression for file and the
\* probe's result i.
PlanArgs(f, i) ==
    [fileSize |-> f.size, duration |-> i.duration, width |-> i.width,
     height |-> i.height, targetBytes |-> targetBytes]

PlanFor(in) ==
    calculateCompression(in.fileSize, in.duration, in.width, in.height,
                         in.targetBytes)

\* getVideoInfo resolved: unmountFile, calculateCompression, mountFile, then
\* compressVideo up to its await.
ProbedCompress ==
    /\ stage = "probing"
    /\ page = "compress"
    /\ pc = "returned"
    /\ LET in == PlanArgs(files[fileIndex], result.value)
       IN  /\ PlanFor(in).ok
           /\ planIn' = in
           /\ planOut' = PlanFor(in)
           /\ plans' = Append(plans, PlanCall(in, PlanFor(in)))
           /\ CompressStart([plan     |-> PlanFor(in),
                             duration |-> result.value.duration])
    /\ mounted' = TRUE
    /\ stage' = "running"
    /\ UNCHANGED <<loadVars, uiVars, page, files, fileIndex, newResults, results, processing>>

\* getVideoInfo resolved, unmountFile, and calculateCompression threw: the
\* catch block.
ProbedPlanFails ==
    /\ stage = "probing"
    /\ page = "compress"
    /\ pc = "returned"
    /\ LET in == PlanArgs(files[fileIndex], result.value)
       IN  /\ ~PlanFor(in).ok
           /\ planIn' = in
           /\ planOut' = PlanFor(in)
           /\ plans' = Append(plans, PlanCall(in, PlanFor(in)))
           /\ newResults' = Append(newResults,
                 ErrorEntry(files[fileIndex].name, PlanFor(in).error))
    /\ mounted' = FALSE
    /\ fileIndex' = fileIndex + 1
    /\ stage' = "loop"
    /\ UNCHANGED <<loadVars, uiVars, engineVars, callVars, probeVars,
                   splitVars, compressVars, deleteCalls, sinks, page, files,
                   results, processing>>

\* `${baseName}.${targetFormat}` or `${baseName}_compressed.mp4`
ResultName(f) ==
    IF page = "convert"
    THEN Name(f.name.base, "", targetFormat)
    ELSE Name(f.name.base, "_compressed", "mp4")

\* convertMedia or compressVideo resolved: unmountFile, newResults.push.
Processed ==
    /\ stage = "running"
    /\ pc = "returned"
    /\ mounted' = FALSE
    /\ newResults' = Append(newResults,
          ResultEntry(ResultName(files[fileIndex]), result.value))
    /\ fileIndex' = fileIndex + 1
    /\ stage' = "loop"
    /\ UNCHANGED <<loadVars, uiVars, toolVars, page, files, results, processing>>

InitBatch == InitProbe

NextBatch ==
    \/ HandleBatch
    \/ LoadReturn
    \/ LoadFail
    \/ LoopEnd
    \/ LoopSkip
    \/ LoopMount
    \/ Catch
    \/ ProbedConvert
    \/ ProbedCompress
    \/ ProbedPlanFails
    \/ Processed
    \/ ProbeLogLine
    \/ GetMediaDurationReturn
    \/ GetVideoInfoReturn
    \/ ProbeExecFail
    \/ ConvertLogLine
    \/ ConvertWrite
    \/ ConvertReturn
    \/ ConvertFail
    \/ ConvertedReadReturn
    \/ ConvertedReadFail
    \/ ConvertedDeleteReturn
    \/ ConvertedDeleteFail
    \/ CompressLogLine
    \/ CompressWrite
    \/ Pass1Return
    \/ Pass1Fail
    \/ Pass2Return
    \/ Pass2Fail
    \/ OutputReadReturn
    \/ OutputReadFail
    \/ OutputDeleteReturn
    \/ OutputDeleteFail
    \/ LogDeleteReturn
    \/ LogDeleteFail
    \/ LogTreeDeleteReturn
    \/ LogTreeDeleteFail

SpecBatch == InitBatch /\ [][NextBatch]_vars

(***************************************************************************)
(* loadFFmpeg: the app's preload at start and the pages' calls share the   *)
(* module variable ffmpeg.  Each call is followed from await to await.     *)
(***************************************************************************)

\* A bound of the model: the loadFFmpeg calls of one behaviour.
MaxLoads == 3

\* own is the instance the call constructed (0: none), value the instance it
\* resolved to (0: not resolved).
Load(at, own, value) == [pc |-> at, own |-> own, value |-> value]

\* Call i moves to position at.
LoadMoved(i, at) == [loads EXCEPT ![i].pc = at]

\* if (ffmpeg && ffmpeg.loaded)
EngineReady == ffmpeg # 0 /\ engines[ffmpeg]

\* loadFFmpeg up to its first await: the loaded instance is returned, or a
\* new one is constructed and assigned, and toBlobURL is awaited.
loadFFmpeg ==
    /\ Len(loads) < MaxLoads
    /\ IF EngineReady
       THEN /\ loads' = Append(loads, Load("returned", 0, ffmpeg))
            /\ UNCHANGED <<ffmpeg, engines>>
       ELSE /\ engines' = Append(engines, FALSE)
            /\ ffmpeg' = Len(engines) + 1
            /\ loads' = Append(loads, Load("fetching", Len(engines) + 1, 0))
    /\ UNCHANGED <<toolVars, batchVars, results, processing, mounted, uiVars>>

\* Both toBlobURL calls resolved: the call's own instance starts to load.
CoreFetched ==
    /\ \E i \in DOMAIN loads :
          /\ loads[i].pc = "fetching"
          /\ loads' = LoadMoved(i, "loading")
    /\ UNCHANGED <<toolVars, batchVars, results, processing, mounted, uiVars,
                   ffmpeg, engines>>

\* An await of the call rejected: loadFFmpeg rejects, ffmpeg stays assigned.
LoadThrows ==
    /\ \E i \in DOMAIN loads :
          /\ loads[i].pc \in {"fetching", "loading"}
          /\ loads' = LoadMoved(i, "threw")
    /\ UNCHANGED <<toolVars, batchVars, results, processing, mounted, uiVars,
                   ffmpeg, engines>>

\* load() of the call's own instance resolved: return ffmpeg, the module
\* variable as it is by now.
EngineLoaded ==
    /\ \E i \in DOMAIN loads :
          /\ loads[i].pc = "loading"
          /\ engines' = [engines EXCEPT ![loads[i].own] = TRUE]
          /\ loads' = [loads EXCEPT ![i].pc = "returned", ![i].value = ffmpeg]
    /\ UNCHANGED <<toolVars, batchVars, results, processing, mounted, uiVars,
                   ffmpeg>>

InitLoad == InitProbe

NextLoad ==
    \/ loadFFmpeg
    \/ CoreFetched
    \/ LoadThrows
    \/ EngineLoaded

SpecLoad == InitLoad /\ [][NextLoad]_vars

(***************************************************************************)
(* The Video Compressor page: handleFile, handleTargetChange and           *)
(* handleCompress.  The drop zone is never disabled, so calls of the       *)
(* handlers overlap: each call is a task with its own position, and all    *)
(* tasks share the engine and its one mount point.  A task's tool call is  *)
(* followed here through its engine invocations only.                      *)
(***************************************************************************)

\* A bound of the model: the handler calls of one behaviour.
MaxTasks == 3

UIFiles ==
    { [name |-> Name("a", "", "mov"), size |-> 100000000],
      [name |-> Name("b", "", "mkv"), size |-> 50000000] }

\* What getVideoInfo finds in a file: 120 s of 1920x1080, 1.5 s of 1280x720.
InfoOf(f) ==
    IF f.name.base = "a"
    THEN [duration |-> 12000, width |-> 1920, height |-> 1080,
          audioBitrate |-> 128000]
    ELSE [duration |-> 150, width |-> 1280, height |-> 720,
          audioBitrate |-> 192000]

\* The sizes of the presets a user picks: 25 MB and 1 MB.
TargetMBs == {25, 1}

\* mb * 1024 * 1024
Bytes(mb) == mb * 1024 * 1024

\* try { setPlan(calculateCompression(...)) } catch { setPlan(null) }
PlanOrNull(f, i, mb) ==
    LET q == calculateCompression(f.size, i.duration, i.width, i.height,
                                  Bytes(mb))
    IN  IF q.ok THEN q ELSE NoPlan

Task(kind, f, mb, p, duration, at) ==
    [kind |-> kind, file |-> f, targetMB |-> mb, plan |-> p,
     duration |-> duration, pc |-> at]

\* Task i moves to position at.
Moved(i, at) == [tasks EXCEPT ![i].pc = at]

\* handleFile up to its first await: the states are reset, setProbing(true),
\* loadFFmpeg().
handleFile ==
    /\ Len(tasks) < MaxTasks
    /\ \E f \in UIFiles :
          /\ file' = f
          /\ tasks' = Append(tasks,
                Task("handleFile", f, targetMB, NoPlan, 0, "loading"))
    /\ results' = <<>>
    /\ plan' = NoPlan
    /\ videoInfo' = NoInfo
    /\ probing' = TRUE
    /\ UNCHANGED <<loadVars, toolVars, batchVars, processing, mounted, targetMB>>

handleTargetChange ==
    /\ \E mb \in TargetMBs :
          /\ targetMB' = mb
          /\ IF videoInfo # NoInfo /\ file # NoFile
             THEN plan' = PlanOrNull(file, videoInfo, mb)
             ELSE UNCHANGED plan
    /\ results' = <<>>
    /\ UNCHANGED <<loadVars, toolVars, batchVars, processing, mounted, tasks, file,
                   videoInfo, probing>>

\* disabled={!file || !plan || processing || probing || tooSmall}
CompressEnabled ==
    /\ file # NoFile
    /\ plan # NoPlan
    /\ ~processing
    /\ ~probing
    /\ ~(Bytes(targetMB) >= file.size)

\* handleCompress up to its first await: setProcessing(true), loadFFmpeg().
handleCompress ==
    /\ Len(tasks) < MaxTasks
    /\ CompressEnabled
    /\ videoInfo # NoInfo
    /\ tasks' = Append(tasks,
          Task("handleCompress", file, targetMB, plan, videoInfo.duration,
               "loading"))
    /\ processing' = TRUE
    /\ results' = <<>>
    /\ UNCHANGED <<loadVars, toolVars, batchVars, mounted, file, targetMB, videoInfo,
                   plan, probing>>

\* loadFFmpeg resolved: mountFile, then getVideoInfo or compressVideo up to
\* the await of its first engine invocation.
TaskLoaded ==
    /\ \E i \in DOMAIN tasks :
          /\ tasks[i].pc = "loading"
          /\ tasks' = Moved(i, IF tasks[i].kind = "handleFile"
                               THEN "probing" ELSE "pass1")
    /\ mounted' = TRUE
    /\ UNCHANGED <<loadVars, toolVars, batchVars, results, processing, file, targetMB,
                   videoInfo, plan, probing>>

\* The finally block of task i: setProbing(false) or setProcessing(false).
Finally(i) ==
    /\ tasks' = Moved(i, "done")
    /\ IF tasks[i].kind = "handleFile"
       THEN probing' = FALSE /\ UNCHANGED processing
       ELSE processing' = FALSE /\ UNCHANGED probing

\* loadFFmpeg rejected: the catch block with ffmpeg still null, finally.
TaskLoadFailed ==
    /\ \E i \in DOMAIN tasks :
          /\ tasks[i].pc = "loading"
          /\ Finally(i)
    /\ UNCHANGED <<loadVars, toolVars, batchVars, results, mounted, file, targetMB,
                   videoInfo, plan>>

\* An await of task i rejected after the mount: catch, unmountFile, finally.
TaskThrew ==
    /\ \E i \in DOMAIN tasks :
          /\ tasks[i].pc \in {"probing", "pass1", "pass2", "reading"}
          /\ Finally(i)
    /\ mounted' = FALSE
    /\ UNCHANGED <<loadVars, toolVars, batchVars, results, file, targetMB, videoInfo,
                   plan>>

\* getVideoInfo resolved: unmountFile, setVideoInfo, setPlan with the
\* targetMB the handler was called with, finally.
TaskProbed ==
    /\ \E i \in DOMAIN tasks :
          /\ tasks[i].kind = "handleFile"
          /\ tasks[i].pc = "probing"
          /\ videoInfo' = InfoOf(tasks[i].file)
          /\ plan' = PlanOrNull(tasks[i].file, InfoOf(tasks[i].file),
                                tasks[i].targetMB)
          /\ Finally(i)
    /\ mounted' = FALSE
    /\ UNCHANGED <<loadVars, toolVars, batchVars, results, file, targetMB>>

\* Pass 1 of compressVideo resolved: pass 2 is invoked.
TaskPass1Returned ==
    /\ \E i \in DOMAIN tasks :
          /\ tasks[i].pc = "pass1"
          /\ tasks' = Moved(i, "pass2")
    /\ UNCHANGED <<loadVars, toolVars, batchVars, results, processing, mounted, file,
                   targetMB, videoInfo, plan, probing>>

\* Pass 2 resolved: readFile and the deleteFile calls are awaited.
TaskPass2Returned ==
    /\ \E i \in DOMAIN tasks :
          /\ tasks[i].pc = "pass2"
          /\ tasks' = Moved(i, "reading")
    /\ UNCHANGED <<loadVars, toolVars, batchVars, results, processing, mounted, file,
                   targetMB, videoInfo, plan, probing>>

\* compressVideo resolved: unmountFile, setResult, finally.
TaskCompressed ==
    /\ \E i \in DOMAIN tasks :
          /\ tasks[i].pc = "reading"
          /\ results' = <<ResultEntry(Name(tasks[i].file.name.base,
                                           "_compressed", "mp4"), 1)>>
          /\ Finally(i)
    /\ mounted' = FALSE
    /\ UNCHANGED <<loadVars, toolVars, batchVars, file, targetMB, videoInfo, plan>>

InitUI == InitProbe

NextUI ==
    \/ handleFile
    \/ handleTargetChange
    \/ handleCompress
    \/ TaskLoaded
    \/ TaskLoadFailed
    \/ TaskThrew
    \/ TaskProbed
    \/ TaskPass1Returned
    \/ TaskPass2Returned
    \/ TaskCompressed

SpecUI == InitUI /\ [][NextUI]_vars

(***************************************************************************)
(* The planner as a state machine: one call on inputs drawn from the sets  *)
(* below.                                                                  *)
(***************************************************************************)

PlanFileSizes == {100000000}

\* centiseconds: 120 s, 1.5 s, 61.37 s
PlanDurations == {12000, 150, 6137}

PlanSources ==
    { <<1920, 1080>>, <<3840, 2160>>, <<1280, 720>>, <<854, 480>>,
      <<176, 120>>, <<1080, 1920>>, <<10, 4000>>, <<641, 361>> }

PlanTargets ==
    { 25000000, 7440000, 2940000, 2190000, 1740000, 1590000, 1515000,
      1470000, 1455000, 1440001, 1440000, 1000000, 18000, 18001, 73644,
      80000, 500000 }

InitPlan ==
    /\ planIn \in [fileSize    : PlanFileSizes,
                   duration    : PlanDurations,
                   width       : {s[1] : s \in PlanSources},
                   height      : {s[2] : s \in PlanSources},
                   targetBytes : PlanTargets]
    /\ <<planIn.width, planIn.height>> \in PlanSources
    /\ planOut = NoPlan
    /\ plans = <<>>
    /\ InitEngine

Calculate ==
    /\ planOut = NoPlan
    /\ planOut' = calculateCompression(planIn.fileSize, planIn.duration,
                                       planIn.width, planIn.height,
                                       planIn.targetBytes)
    /\ plans' = Append(plans, PlanCall(planIn, planOut'))
    /\ UNCHANGED <<planIn, engineVars, callVars, probeVars, splitVars,
                   compressVars, pageVars, sinks, deleteCalls>>

NextPlan == Calculate

SpecPlan == InitPlan /\ [][NextPlan]_vars

(***************************************************************************)
(* The planner called again and again, between and during the engine's     *)
(* probes of a video.                                                      *)
(***************************************************************************)

\* A bound of the model: the calculateCompression calls of one behaviour.
MaxPlanCalls == 3

\* A target that gives a plan, and one too small for the audio alone.
PureInputs ==
    { [fileSize |-> 100000000, duration |-> 12000, width |-> 1920,
       height |-> 1080, targetBytes |-> 25000000],
      [fileSize |-> 100000000, duration |-> 12000, width |-> 1920,
       height |-> 1080, targetBytes |-> 1440000] }

Recalculate ==
    /\ Len(plans) < MaxPlanCalls
    /\ \E in \in PureInputs :
          /\ planIn' = in
          /\ planOut' = calculateCompression(in.fileSize, in.duration,
                                             in.width, in.height,
                                             in.targetBytes)
          /\ plans' = Append(plans, PlanCall(in, planOut'))
    /\ UNCHANGED <<engineVars, callVars, probeVars, splitVars, compressVars,
                   pageVars, sinks, deleteCalls>>

InitPure == InitProbe

NextPure ==
    \/ Recalculate
    \/ GetVideoInfoCall
    \/ ProbeLogLine
    \/ GetVideoInfoReturn
    \/ ProbeExecFail

SpecPure == InitPure /\ [][NextPure]_vars


(***************************************************************************)
(* Claims about calculateCompression, checked under SpecPlan               *)
(***************************************************************************)

Planned == planOut # NoPlan

Abs(x) == IF x < 0 THEN -x ELSE x

SetMax(S) == CHOOSE x \in S : \A y \in S : y <= x

\* The bits left for video on the inputs of the call, as the claims state it.
ClaimAvail == planIn.targetBytes * 8 - 960 * planIn.duration

\* v is the integer nearest to ClaimAvail / duration (bits per second, the
\* duration in centiseconds), a half rounding upward.
IsRoundedBitrate(v) ==
    /\ FracGeq(ClaimAvail, planIn.duration, 2 * v - 1, 200)
    /\ ~FracGeq(ClaimAvail, planIn.duration, 2 * v + 1, 200)

\* candidateVideoBitrate / (w * h) >= 0.04
ClaimBppOk(w, h) == FracGeq(ClaimAvail, planIn.duration, w * h, 2500)

\* The even width nearest to h * width / height.
ClaimWidth(h) ==
    2 * ((h * planIn.width + planIn.height) \div (2 * planIn.height))

\* The rungs the ladder walk may accept: strictly below the source height,
\* with enough bits per pixel at their aspect-preserving width.
QualifyingRungs ==
    { h \in {1080, 720, 480, 360, 240, 144} :
        h < planIn.height /\ ClaimBppOk(ClaimWidth(h), h) }

\* C6: calculateCompression fails with the target-too-small error exactly
\* when targetBytes * 8 <= 96000 * duration, and returns a plan otherwise.
C6_FailsExactlyWhenTargetTooSmall ==
    Planned =>
        IF planIn.targetBytes * 8 <= 960 * planIn.duration
        THEN /\ ~planOut.ok
             /\ planOut.error = "Target size is too small even for audio alone."
        ELSE /\ planOut.ok
             /\ planOut.videoBitrate \in Nat
             /\ planOut.newWidth \in Nat
             /\ planOut.newHeight \in Nat

\* The boundary case: the target pays for the audio exactly, and the call failed.
C6_Witness ==
    /\ Planned
    /\ planIn.targetBytes * 8 = 960 * planIn.duration
    /\ ~planOut.ok

\* C7: when the candidate bitrate gives the source at least 0.04 bits per
\* pixel, the plan keeps the source resolution, with videoBitrate =
\* round(availableVideoBits / duration) and audioBitrate = 96000; the call
\* (100000000, 120 s, 1920, 1080, 25000000) keeps 1920x1080 at 1570667.
C7_KeepsSourceWhenBppOk ==
    /\ (Planned /\ planOut.ok /\ ClaimBppOk(planIn.width, planIn.height)) =>
          /\ planOut.newWidth = planIn.width
          /\ planOut.newHeight = planIn.height
          /\ IsRoundedBitrate(planOut.videoBitrate)
          /\ planOut.audioBitrate = 96000
    /\ (Planned /\ planIn = [fileSize |-> 100000000, duration |-> 12000,
                             width |-> 1920, height |-> 1080,
                             targetBytes |-> 25000000]) =>
          /\ planOut.ok
          /\ planOut.newWidth = 1920
          /\ planOut.newHeight = 1080
          /\ planOut.videoBitrate = 1570667
          /\ planOut.audioBitrate = 96000

C7_Witness ==
    /\ Planned
    /\ planOut.ok
    /\ planIn.duration = 12000
    /\ planIn.width = 1920
    /\ planIn.height = 1080
    /\ planIn.targetBytes = 25000000
    /\ planOut.videoBitrate = 1570667

\* C8: when the source is below 0.04 bits per pixel, the plan's height is the
\* tallest rung strictly below the source height that reaches 0.04 at its
\* aspect-preserving width, and 144 when no rung does; a rung the walk
\* selects is always strictly below the source height.
C8_TallestQualifyingRung ==
    (Planned /\ planOut.ok /\ ~ClaimBppOk(planIn.width, planIn.height)) =>
        IF QualifyingRungs # {}
        THEN /\ planOut.newHeight = SetMax(QualifyingRungs)
             /\ planOut.newWidth = ClaimWidth(SetMax(QualifyingRungs))
             /\ planOut.newHeight < planIn.height
        ELSE /\ planOut.newHeight = 144
             /\ planOut.newWidth = ClaimWidth(144)

\* Several rungs qualify and some rung above the chosen one was rejected.
C8_Witness ==
    /\ Planned
    /\ planOut.ok
    /\ ~ClaimBppOk(planIn.width, planIn.height)
    /\ Cardinality(QualifyingRungs) >= 2
    /\ planOut.newHeight = SetMax(QualifyingRungs)
    /\ \E h \in {1080, 720, 480, 360, 240, 144} :
          h < planIn.height /\ h > planOut.newHeight

\* C9: every width computed for a ladder rung (newWidth of a downscaled
\* plan, minWidth of the floor) is even and within one pixel of the exact
\* aspect-preserving width h * width / height.
C9_RungWidthsEvenAndAspectPreserving ==
    (Planned /\ planOut.ok) =>
        /\ planOut.minWidth % 2 = 0
        /\ Abs(planOut.minWidth * planIn.height - 144 * planIn.width)
              <= planIn.height
        /\ ~ClaimBppOk(planIn.width, planIn.height) =>
              /\ planOut.newWidth % 2 = 0
              /\ Abs(planOut.newWidth * planIn.height
                        - planOut.newHeight * planIn.width) <= planIn.height

\* A downscaled plan whose exact aspect-preserving width is not an integer.
C9_Witness ==
    /\ Planned
    /\ planOut.ok
    /\ ~ClaimBppOk(planIn.width, planIn.height)
    /\ planOut.newHeight < planIn.height
    /\ (planOut.newHeight * planIn.width) % planIn.height # 0
    /\ planOut.newWidth % 2 = 0

\* C10: every plan reports minHeight = 144, the aspect-preserving even
\* minWidth for 144 lines, and minVideoBitrate = round(availableVideoBits /
\* duration), whether the plan keeps the source, picks a rung or is the floor.
C10_FloorAlwaysReported ==
    (Planned /\ planOut.ok) =>
        /\ planOut.minHeight = 144
        /\ planOut.minWidth = ClaimWidth(144)
        /\ IsRoundedBitrate(planOut.minVideoBitrate)

\* A plan on a rung above the floor, with the floor reported beside it.
C10_Witness ==
    /\ Planned
    /\ planOut.ok
    /\ planOut.newHeight \in {1080, 720, 480, 360, 240}
    /\ planOut.newHeight < planIn.height
    /\ planOut.minHeight = 144
    /\ planOut.minWidth # planOut.newWidth


ProbeCompleted(f) ==
    /\ op = f
    /\ pc \in {"returned", "threw"}
    /\ (~result.ok => result.error # EngineError)

Throws(error) == ~result.ok /\ result.error = error

C5_AudioDefaultAndNonZeroResult ==
    /\ ( /\ ProbeCompleted("getVideoInfo")
         /\ "Audio" \notin seen
         /\ info.duration # 0 /\ info.width # 0 /\ info.height # 0 ) =>
          (result.ok /\ result.value.audioBitrate = 128000)
    /\ (ProbeCompleted("getVideoInfo") /\ result.ok) =>
          /\ result.value.duration # 0
          /\ result.value.width # 0
          /\ result.value.height # 0

\* C5 as stated: getVideoInfo fails with the missing-resolution error
\* whenever its invocation completes without a Resolution line; without an
\* Audio line it succeeds with 128000; a result has no zero field.
C5_NoResolutionGivesMissingResolution ==
    /\ (ProbeCompleted("getVideoInfo") /\ "Video" \notin seen) =>
          Throws(MissingResolution)
    /\ C5_AudioDefaultAndNonZeroResult

\* C5, amended: without a Resolution line getVideoInfo fails, with the
\* missing-resolution error when it parsed a non-zero duration and with the
\* missing-duration error otherwise; the rest as stated.
C5_NoResolutionFails ==
    /\ (ProbeCompleted("getVideoInfo") /\ "Video" \notin seen) =>
          IF info.duration # 0
          THEN Throws(MissingResolution)
          ELSE Throws(MissingDuration)
    /\ C5_AudioDefaultAndNonZeroResult

\* getVideoInfo parsed a duration, saw no Resolution line and threw the
\* missing-resolution error.
C5_Witness ==
    /\ ProbeCompleted("getVideoInfo")
    /\ "Duration" \in seen
    /\ "Video" \notin seen
    /\ info.duration # 0
    /\ Throws(MissingResolution)


(***************************************************************************)
(* Claims about splitVideo, checked under SpecSplit and FairSpecSplit      *)
(***************************************************************************)

SplitRunning ==
    op = "splitVideo" /\ pc \notin {"idle", "returned", "threw"}

SplitEnded == op = "splitVideo" /\ pc \in {"returned", "threw"}

\* C1: with every engine invocation answered, a splitVideo call ends (the
\* loop runs finitely often), and each completed iteration leaves
\* currentTime strictly greater than it found it, whatever elapsed times
\* (none and 0 included) the engine reported.
C1_LoopTerminatesAndTimeIncreases ==
    /\ [][(pc = "delete" /\ pc' \in {"segment", "returned"})
             => currentTime' > currentTime]_vars
    /\ [](SplitRunning => <>SplitEnded)

\* A call that returned after three iterations or more, the last of which
\* had no elapsed time reported.
C1_Witness ==
    /\ SplitEnded
    /\ pc = "returned"
    /\ chunkIndex >= 3
    /\ lastTime = 0
    /\ ~LoopCondition(args, currentTime)

\* C2: after a tool call has returned or thrown, no handler it subscribed
\* to the engine's log is still subscribed.
C2_NoHandlerLeftSubscribed ==
    pc \in {"returned", "threw"} => \A h \in listeners : h.call # calls

\* C3: at most one segment artifact is in the engine's workspace, in every
\* state of a splitVideo call, failed invocations and reads included.
C3_AtMostOneSegmentArtifact ==
    op = "splitVideo" => Cardinality(fs) <= 1

(***************************************************************************)
(* Claims about compressVideo, checked under SpecCompress                  *)
(***************************************************************************)

CompressEnded == op = "compressVideo" /\ pc \in {"returned", "threw"}

\* C12: compressVideo invokes the engine for pass 1 and then for pass 2, one
\* after the other; pass 2 is invoked only after pass 1 returned; when either
\* invocation fails compressVideo fails, invokes nothing more (no retry, no
\* other plan) and returns no buffer.
C12_TwoSequentialPassesNoRetry ==
    op = "compressVideo" =>
        /\ Len(passes) \in {1, 2}
        /\ passes[1].pass = 1
        /\ Len(passes) = 2 =>
              /\ passes[1].state = "ok"
              /\ passes[2].pass = 2
              /\ passes[2].video = passes[1].video
              /\ passes[2].scale = passes[1].scale
        /\ \A i \in 1..Len(passes) :
              /\ passes[i].state = "running" <=>
                    (i = Len(passes) /\ pc = IF i = 1 THEN "pass1" ELSE "pass2")
              /\ passes[i].state = "failed" =>
                    /\ i = Len(passes)
                    /\ pc = "threw"
                    /\ ~result.ok
                    /\ result.error = EngineError

\* Pass 2 failed after pass 1 had returned, and compressVideo threw.
C12_Witness ==
    /\ CompressEnded
    /\ Len(passes) = 2
    /\ passes[1].state = "ok"
    /\ passes[2].state = "failed"
    /\ ~result.ok

\* C13: after a successful pass 2 and the read of the output, a failure to
\* delete the output artifact or a statistics log is swallowed: compressVideo
\* returns the buffer it read, never the cleanup's error.
C13_CleanupFailureSwallowed ==
    (CompressEnded /\ blob # 0) => (result.ok /\ result.value = blob)

(***************************************************************************)
(* Claims about the batch pages, checked under SpecBatch                   *)
(***************************************************************************)

\* The handler has left the first file of the batch, whose tool calls found
\* the engine's workspace empty.
FirstFileLeft == stage = "loop" /\ fileIndex = 2 /\ op # "none"

\* C14: on every exit path of a file's workflow, the failure of an engine
\* invocation or of an artifact read included, the file has been unmounted
\* and deleteFile has been called on every artifact the run created.
C14_CleanupAttemptedOnEveryExit ==
    FirstFileLeft => (~mounted /\ fs \subseteq deleteCalls)

\* res has one entry for each of the first n files, in the files' order.
OneEntryPerFile(res, n) ==
    /\ Len(res) = n
    /\ \A k \in 1..n : res[k].name.base = files[k].name.base

\* A failure while a file is processed becomes the file's error entry, and
\* the loop goes on with the next file.
FailureIsRecorded ==
    [][(stage \in {"probing", "running"} /\ pc = "threw" /\ stage' # stage)
          => /\ newResults' = Append(newResults,
                    ErrorEntry(files[fileIndex].name, result.error))
             /\ fileIndex' = fileIndex + 1
             /\ stage' = "loop"]_vars

\* C15 as stated: a failure while file i is processed is recorded as the
\* file's error entry and the loop goes on with file i + 1; when the run
\* ends the result list has one entry per input file, in input order, and
\* processing is false.
C15_OneEntryPerFileWhenRunEnds ==
    /\ FailureIsRecorded
    /\ [](stage = "loop" => OneEntryPerFile(newResults, fileIndex - 1))
    /\ [](stage = "ended" =>
             (~processing /\ OneEntryPerFile(results, Len(files))))

\* C15, amended: the same for a run whose engine loaded; a run whose
\* loadFFmpeg failed ends with an empty result list and processing false.
C15_OneEntryPerFileOnceLoaded ==
    /\ FailureIsRecorded
    /\ [](stage = "loop" => OneEntryPerFile(newResults, fileIndex - 1))
    /\ [](stage = "ended" =>
             /\ ~processing
             /\ IF fileIndex = 0
                THEN results = <<>>
                ELSE OneEntryPerFile(results, Len(files)))

\* A batch of two files ended: the first failed in a tool call, the second
\* was processed and gave its blob.
C15_Witness ==
    /\ stage = "ended"
    /\ Len(files) = 2
    /\ Len(results) = 2
    /\ results[1].error \in {EngineError, "readFile failed"}
    /\ results[2].blob # 0
    /\ ~processing

(***************************************************************************)
(* Claims about the Video Compressor page, checked under SpecUI            *)
(***************************************************************************)

\* The tasks with an engine invocation in flight.
ExecsInFlight ==
    { i \in DOMAIN tasks : tasks[i].pc \in {"probing", "pass1", "pass2"} }

\* C16: whatever the order of the UI events (a file dropped, the target
\* changed, the button pressed) and of the steps of the handlers in flight,
\* no engine invocation starts while another is in flight, and mountFile is
\* never called while a mount has not been unmounted.
C16_OneMountOneExecAtATime ==
    /\ [](Cardinality(ExecsInFlight) <= 1)
    /\ [][\A i \in DOMAIN tasks :
            (tasks[i].pc = "loading" /\ tasks'[i].pc \in {"probing", "pass1"})
                => ~mounted]_vars

(***************************************************************************)
(* Claims about splitVideo's failures and progress, checked under          *)
(* SpecSplit                                                               *)
(***************************************************************************)

\* The segments the caller of splitVideo holds once the call has ended: the
\* array a resolved call returns; a rejected call delivers its error alone.
SegmentsReceived == IF result.ok THEN result.value ELSE <<>>

\* C17: when an await inside splitVideo is rejected after k segments were
\* pushed, the loop stops and the caller receives the error together with
\* those k segments.
C17_ErrorComesWithSegments ==
    [][(pc # "threw" /\ pc' = "threw")
          => (~result'.ok /\ SegmentsReceived' = chunks)]_vars

\* A run of splitVideo has returned its chunks.
SplitReturned == op = "splitVideo" /\ pc = "returned"

\* The last event of a run that returned has percent = 100 and
\* current = total = the number of chunks returned.
LastEventIsDone ==
    SplitReturned =>
        /\ progress.percent = 100
        /\ progress.current = Len(result.value)
        /\ progress.total = Len(result.value)
        /\ progress.message = "Done!"

\* C18 as stated: a run of splitVideo that does not fail has, as its last
\* progress event, an event with percent = 100 and current = total = the
\* number of chunks returned, also when the loop body never ran, and every
\* earlier event of the run has percent < 100.
C18_DoneLastAndEarlierBelow100 ==
    /\ LastEventIsDone
    /\ (op = "splitVideo" /\ pc # "returned") => progress.percent < 100

\* C18: a run of splitVideo that does not fail has, as its last progress
\* event, the one "Done!" event of the run, with percent = 100 and
\* current = total = the number of chunks returned, also when the loop body
\* never ran; an earlier event has percent = round(currentTime / duration *
\* 100), which is at most 100, and below 100 when currentTime is below
\* 99.5 % of the duration.
C18_DoneLastAndOnce ==
    /\ [](LastEventIsDone)
    /\ []((op = "splitVideo" /\ pc # "returned") =>
            /\ progress.message # "Done!"
            /\ progress.percent <= 100
            /\ (/\ pc # "threw"
                /\ 1000 * currentTime < 995 * args.duration * TimeDen(args))
                   => progress.percent < 100)
    /\ [][(progress' # progress /\ progress'.message = "Done!")
            => (pc' = "returned" /\ (pc = "delete" \/ calls' = calls + 1))]_vars

\* A run on 30 s has returned two chunks, each reported at 29.87 s: the
\* second began at 29.87 s with an event of 100 percent.
C18_Witness ==
    /\ SplitReturned
    /\ args.duration = 3000
    /\ Len(result.value) = 2
    /\ currentTime = 2 * 2987 * TimeDen(args)
    /\ progress = DoneProgress(2)

\* estimatedTotalChunks as the claim states it, with the factor 0.95 on
\* maxChunkBytes: ceil(duration / ((maxChunkBytes * 0.95) / (fileSize /
\* duration))).
ClaimedTotalChunks(a) ==
    (a.duration * TimeDen(a) + 19 * a.maxChunkBytes * a.duration - 1)
        \div (19 * a.maxChunkBytes * a.duration)

\* fileSize = 1000000000 and maxChunkBytes = 209715200 in units of 12800
\* bytes, duration = 600 in seconds: the estimated total is a ratio of
\* the sizes, and these integers keep it within 32 bits.
ExampleArgs(variant) ==
    [fileName |-> "a", fileSize |-> 78125, duration |-> 600,
     maxChunkBytes |-> 16384, variant |-> variant]

\* C19: the total reported in the progress event of an iteration is the
\* estimate ceil(duration / estimatedChunkDuration), or the chunk's index
\* once that is larger, with estimatedChunkDuration = (maxChunkBytes * 0.95)
\* / (fileSize / duration); for fileSize = 1000000000, duration = 600 and
\* maxChunkBytes = 209715200 the estimate is 6.
C19_EstimateDiscountsFivePercent ==
    (op = "splitVideo" /\ pc \notin {"returned", "threw"}) =>
        /\ progress.total = MathMax(ClaimedTotalChunks(args), chunkIndex)
        /\ estimatedTotalChunks(ExampleArgs(args.variant)) = 6

(***************************************************************************)
(* Claims about parseTimeToSeconds, checked under SpecParse                *)
(***************************************************************************)

\* 10 ^ n
RECURSIVE Pow10(_)
Pow10(n) == IF n = 0 THEN 1 ELSE 10 * Pow10(n - 1)

\* The time a token HH:MM:SS.f denotes, in milliseconds, f of up to three
\* digits read as a decimal fraction of a second.
DenotedMillis(tok) ==
    (tok.hh * 3600 + tok.mm * 60 + tok.ss) * 1000
        + ParseInt(tok.frac) * Pow10(3 - Len(tok.frac))

\* C20: parseTimeToSeconds gives 0 for a string without a token, and for a
\* string holding HH:MM:SS.f the time it denotes to within 0.01 s, whatever
\* fractional part f the pattern admits: H * 3600 + M * 60 + S plus the
\* fraction, 3723.45 for "01:02:03.45".
C20_ParsesEveryFraction ==
    /\ parseTimeToSeconds(Tok(1, 2, 3, <<4, 5>>)) = 372345
    /\ \A i \in DOMAIN durationStr :
          IF durationStr[i] = NoMatch
          THEN lastTime = 0
          ELSE /\ 10 * lastTime <= DenotedMillis(durationStr[i])
               /\ DenotedMillis(durationStr[i]) < 10 * lastTime + 10

(***************************************************************************)
(* Claims about splitVideo's advance and its re-encode, checked under      *)
(* SpecSplit                                                               *)
(***************************************************************************)

\* An iteration of splitVideo's loop completes in this step.
IterationCompletes == pc = "delete" /\ pc' \in {"segment", "returned"}

\* C21: an iteration of splitVideo moves currentTime by the last elapsed
\* time its segment's invocation reported when that is above 0, and by
\* estimatedChunkDuration otherwise; a call starts at 0 and currentTime does
\* not move within an iteration, so segment k+1 is sought at the sum of the
\* advances of segments 1..k.
C21_AdvanceByReportedTime ==
    /\ [][IterationCompletes =>
            currentTime' = currentTime +
                (IF lastTime > 0 THEN lastTime * TimeDen(args)
                 ELSE estimatedChunkDuration(args))]_vars
    /\ [][calls' = calls + 1 => currentTime' = 0]_vars
    /\ [][(op = "splitVideo" /\ calls' = calls /\ pc' # "threw"
             /\ ~IterationCompletes) => currentTime' = currentTime]_vars

\* The third segment begins where a segment reported at 0.04 s and one
\* without a report, in either order, have ended.
C21_Witness ==
    /\ op = "splitVideo"
    /\ pc = "segment"
    /\ chunkIndex = 3
    /\ currentTime = 4 * TimeDen(args) + estimatedChunkDuration(args)

\* C22: a segment read with a size above maxChunkBytes is redone, once, and
\* the list gets the redone segment in its place: what is pushed straight
\* from the first read is within maxChunkBytes, a second read is followed by
\* the push, and the list has one entry per iteration.
C22_OversizedSegmentIsRedone ==
    /\ [][(pc = "read" /\ pc' = "delete")
            => chunks'[Len(chunks')].size <= args.maxChunkBytes]_vars
    /\ [][pc = "reread" => pc' \in {"reread", "delete", "threw"}]_vars
    /\ [](pc = "delete" => Len(chunks) = chunkIndex)

(***************************************************************************)
(* A claim about the probes' Duration lines, checked under SpecProbe       *)
(***************************************************************************)

\* C23: once a line of a probe's invocation has matched the Duration
\* grammar, the later lines of that invocation do not change the duration
\* the probe holds: the first matching line gives the probed duration.
C23_FirstDurationWins ==
    [][(pc = "probe" /\ pc' = "probe" /\ "Duration" \in seen)
          => (durationStr' = durationStr
                /\ info'.duration = info.duration)]_vars

(***************************************************************************)
(* A claim about the plans the Video Compressor page encodes with, checked *)
(* under SpecUI                                                            *)
(***************************************************************************)

\* The plans a successful probe of file f gives, for the targets there are.
PlansOf(f) == { PlanOrNull(f, InfoOf(f), mb) : mb \in TargetMBs } \ {NoPlan}

\* C24: whatever the order of the file selections, the target changes and
\* the probes' completions, compressVideo is started on a file with a plan
\* and a duration that came from a successful probe of that file, never
\* from the probe of a file selected before it.
C24_PlanComesFromProbeOfTheFile ==
    \A i \in DOMAIN tasks :
        (tasks[i].kind = "handleCompress"
            /\ tasks[i].pc \in {"pass1", "pass2", "reading"}) =>
                /\ tasks[i].duration = InfoOf(tasks[i].file).duration
                /\ tasks[i].plan \in PlansOf(tasks[i].file)

(***************************************************************************)
(* A claim about loadFFmpeg, checked under SpecLoad                        *)
(***************************************************************************)

\* C25: whatever the order of the steps of concurrent loadFFmpeg calls, at
\* most one engine instance is constructed, and a call that resolves
\* resolves to an instance whose load has completed.
C25_OneEngineLoadedWhenReturned ==
    /\ Len(engines) <= 1
    /\ \A i \in DOMAIN loads :
          loads[i].pc = "returned" => engines[loads[i].value]

(***************************************************************************)
(* A claim about the size of the segments, checked under SpecSplitCap      *)
(***************************************************************************)

\* C26: with an engine that overshoots its -fs cap by less than 512 KiB,
\* every segment splitVideo copies is strictly smaller than maxChunkBytes,
\* whatever maxChunkBytes > 0 is: every chunk in the list is under the
\* limit, and the re-encode is never reached.
C26_SegmentsUnderTheLimit ==
    op = "splitVideo" =>
        /\ \A i \in DOMAIN chunks : chunks[i].size < args.maxChunkBytes
        /\ pc \notin {"reencode", "reread"}

(***************************************************************************)
(* A claim about the progress sinks, checked under SpecCompress            *)
(***************************************************************************)

\* C27: the onProgress given to a compressVideo or convertMedia call is
\* handed events while that call runs only: once the call has returned or
\* failed, no later engine invocation, that of a retry after a failed pass
\* included, hands it an event.
C27_NoEventAfterTheCallEnded ==
    \A r \in sinks : ~r.late

(***************************************************************************)
(* Claims about the plan's dimensions and bitrates, checked under SpecPlan *)
(***************************************************************************)

\* C28: a plan calculateCompression returns is never larger than the
\* source, the 144-line floor included: newHeight <= height and
\* newWidth <= width.
C28_NeverUpscales ==
    planOut.ok =>
        /\ planOut.newHeight <= planIn.height
        /\ planOut.newWidth <= planIn.width

\* C29: for a source of width >= 10 and height >= 10, the sizes the
\* Resolution grammar admits, a plan has newWidth, newHeight and minWidth
\* above 0, so the scale filter compressVideo builds from it has no zero
\* dimension.
C29_PositiveDimensions ==
    (planOut.ok /\ planIn.width >= 10 /\ planIn.height >= 10) =>
        /\ planOut.newWidth > 0
        /\ planOut.newHeight > 0
        /\ planOut.minWidth > 0
        /\ scaleValue(planOut)[1] > 0
        /\ scaleValue(planOut)[2] > 0

\* C30: the bitrates compressVideo hands to the engine for a plan keep to
\* the byte budget the plan was computed for: (videoBitrateK +
\* audioBitrateK) * 1000 * duration <= targetBytes * 8, the duration in
\* seconds; with it in centiseconds both sides are divided by 100.
C30_BitratesWithinBudget ==
    planOut.ok =>
        (videoBitrateK(planOut) + audioBitrateK(planOut)) * 10
            * planIn.duration <= planIn.targetBytes * 8

==========================================================================
